---- MODULE Spec2Model ----
(***************************************************************************)
(* Model of pyacal/mathphys.py: the load of the module (the four class     *)
(* bodies BaseUnits, Constants, DerivedUnits, Conversions, executed        *)
(* statement by statement) and the operations a client has afterwards      *)
(* (attribute reads and beam_rigidity calls).                              *)
(*                                                                         *)
(* Numbers are IEEE-754 binary64 values, as Python floats are: a value is  *)
(* [m |-> mantissa, e |-> exponent] with 2^52 <= m < 2^53 and stands for   *)
(* m * 2^e.  The mantissa needs 53 bits, so it is kept as a sequence of    *)
(* base-2^15 limbs, least significant first.  Every operation rounds to    *)
(* nearest, ties to even.  All values of the module are positive normal    *)
(* numbers; zero, subnormals, infinities and signs are not represented.    *)
(*                                                                         *)
(* The def of beam_rigidity (line 132) stands at the indentation of the    *)
(* body of Conversions and its own body (lines 133-135) is not indented    *)
(* further.  The model reads lines 133-135 as the body of that def and     *)
(* binds the function in Conversions.                                      *)
(***************************************************************************)
EXTENDS Integers, Sequences, FiniteSets, TLC

(***************************************************************************)
(* Natural numbers of arbitrary size                                       *)
(***************************************************************************)
LimbBits == 15
Base == 32768

RECURSIVE Pow2(_)
Pow2(n) == IF n = 0 THEN 1 ELSE 2 * Pow2(n - 1)

RECURSIVE BNorm(_)
BNorm(a) ==
    IF a = <<>> THEN <<>>
    ELSE IF a[Len(a)] = 0 THEN BNorm(SubSeq(a, 1, Len(a) - 1))
    ELSE a

RECURSIVE BFromInt(_)
BFromInt(n) == IF n = 0 THEN <<>> ELSE <<n % Base>> \o BFromInt(n \div Base)

BOne == <<1>>

Limb(a, i) == IF i <= Len(a) THEN a[i] ELSE 0

RECURSIVE BCmpFrom(_, _, _)
BCmpFrom(a, b, i) ==
    IF i = 0 THEN 0
    ELSE IF Limb(a, i) < Limb(b, i) THEN -1
    ELSE IF Limb(a, i) > Limb(b, i) THEN 1
    ELSE BCmpFrom(a, b, i - 1)

BCmp(a, b) == BCmpFrom(a, b, IF Len(a) > Len(b) THEN Len(a) ELSE Len(b))

RECURSIVE BAddFrom(_, _, _, _)
BAddFrom(a, b, i, carry) ==
    IF i > Len(a) /\ i > Len(b)
    THEN (IF carry = 0 THEN <<>> ELSE <<carry>>)
    ELSE LET s == Limb(a, i) + Limb(b, i) + carry
         IN  <<s % Base>> \o BAddFrom(a, b, i + 1, s \div Base)

BAdd(a, b) == BAddFrom(a, b, 1, 0)

RECURSIVE BSubFrom(_, _, _, _)
BSubFrom(a, b, i, borrow) ==
    IF i > Len(a) THEN <<>>
    ELSE LET d == Limb(a, i) - Limb(b, i) - borrow
         IN  IF d < 0 THEN <<d + Base>> \o BSubFrom(a, b, i + 1, 1)
             ELSE <<d>> \o BSubFrom(a, b, i + 1, 0)

\* a - b, for a >= b
BSub(a, b) == BNorm(BSubFrom(a, b, 1, 0))

RECURSIVE BMulSmallFrom(_, _, _, _)
BMulSmallFrom(a, k, i, carry) ==
    IF i > Len(a) THEN (IF carry = 0 THEN <<>> ELSE <<carry>>)
    ELSE LET p == a[i] * k + carry
         IN  <<p % Base>> \o BMulSmallFrom(a, k, i + 1, p \div Base)

\* a * k, for 0 <= k < Base
BMulSmall(a, k) == BNorm(BMulSmallFrom(a, k, 1, 0))

Zeros(n) == [i \in 1..n |-> 0]

RECURSIVE BMulFrom(_, _, _)
BMulFrom(a, b, j) ==
    IF j > Len(b) THEN <<>>
    ELSE BAdd(Zeros(j - 1) \o BMulSmall(a, b[j]), BMulFrom(a, b, j + 1))

BMul(a, b) == BNorm(BMulFrom(a, b, 1))

BPow[a \in Seq(Nat), n \in Nat] ==
    IF n = 0 THEN BOne
    ELSE LET h == BPow[a, n \div 2]
         IN  IF n % 2 = 1 THEN BMul(BMul(h, h), a) ELSE BMul(h, h)

RECURSIVE IntBitLen(_)
IntBitLen(n) == IF n = 0 THEN 0 ELSE 1 + IntBitLen(n \div 2)

BBitLen(a) == IF a = <<>> THEN 0 ELSE LimbBits * (Len(a) - 1) + IntBitLen(a[Len(a)])

\* a * 2^n
BShl(a, n) ==
    IF a = <<>> THEN <<>>
    ELSE Zeros(n \div LimbBits) \o BMulSmall(a, Pow2(n % LimbBits))

RECURSIVE BHalveFrom(_, _, _, _)
BHalveFrom(a, k, i, high) ==
    \* limbs i..1 of a divided by 2^k (k < LimbBits), high = remainder so far
    IF i = 0 THEN <<>>
    ELSE LET v == high * Base + a[i]
         IN  BHalveFrom(a, k, i - 1, v % Pow2(k)) \o <<v \div Pow2(k)>>

\* floor(a / 2^n)
BShr(a, n) ==
    LET w == n \div LimbBits
    IN  IF w >= Len(a) THEN <<>>
        ELSE LET top == SubSeq(a, w + 1, Len(a))
             IN  BNorm(BHalveFrom(top, n % LimbBits, Len(top), 0))

\* a mod 2^n
BLow(a, n) == BSub(a, BShl(BShr(a, n), n))

BIsOdd(a) == a # <<>> /\ a[1] % 2 = 1

\* Functions, unlike operators, take their arguments as values: the
\* arithmetic below is written with functions so that an argument is
\* computed once, before the function is entered.
Big == Seq(Nat)
QuotRem == [q : Big, r : Big]

\* the largest digit at most d whose product with b does not exceed rem
BFitDigit[b \in Big, rem \in Big, d \in Nat] ==
    IF BCmp(BMulSmall(b, d), rem) > 0 THEN BFitDigit[b, rem, d - 1] ELSE d

\* the quotient digit estimated from the top limbs of rem and of b
BEstimate(b, rem) ==
    (Limb(rem, Len(b) + 1) * Base + Limb(rem, Len(b))) \div b[Len(b)]
BCap(est) == IF est >= Base THEN Base - 1 ELSE est

\* digit d goes below the quotient q; the remainder is rem - b * d
BDivPut[b \in Big, q \in Big, rem \in Big, d \in Nat] ==
    [q |-> BNorm(<<d>> \o q), r |-> BSub(rem, BMulSmall(b, d))]
BDivDigit[b \in Big, q \in Big, rem \in Big] ==
    BDivPut[b, q, rem, BFitDigit[b, rem, BCap(BEstimate(b, rem))]]

\* schoolbook division by limbs: qr is the quotient and remainder of the
\* limbs of a above limb j by b; limbs j..1 are still to be brought down.
\* The top limb of b is at least Base / 2, so the estimate from the top
\* limbs is at most 2 too large.
BDivLimbs[a \in Big, b \in Big, j \in Nat, qr \in QuotRem] ==
    IF j = 0 THEN qr
    ELSE BDivLimbs[a, b, j - 1, BDivDigit[b, qr.q, BNorm(<<a[j]>> \o qr.r)]]

BDivUnshift[qr \in QuotRem, s \in Nat] == [q |-> qr.q, r |-> BShr(qr.r, s)]
BDivNormal[a \in Big, b \in Big, s \in Nat] ==
    BDivUnshift[BDivLimbs[a, b, Len(a) - Len(b) + 1,
                          [q |-> <<>>,
                           r |-> BNorm(SubSeq(a, Len(a) - Len(b) + 2, Len(a)))]],
                s]
\* the shift that brings the top limb of b to at least Base / 2
BNormShift(b) == LimbBits - IntBitLen(b[Len(b)])

\* quotient and remainder of a by b, for b > 0
BDivMod[a \in Big, b \in Big] ==
    IF BCmp(a, b) < 0 THEN [q |-> <<>>, r |-> a]
    ELSE BDivNormal[BShl(a, BNormShift(b)), BShl(b, BNormShift(b)), BNormShift(b)]

BFromDigits[ds \in Seq(0..9)] ==
    IF ds = <<>> THEN <<>>
    ELSE BAdd(BMulSmall(BFromDigits[SubSeq(ds, 1, Len(ds) - 1)], 10),
              BFromInt(ds[Len(ds)]))

(***************************************************************************)
(* binary64 arithmetic                                                     *)
(***************************************************************************)
MantBits == 53
Float == [m : Big, e : Int]

\* a mantissa that rounding carried to MantBits + 1 bits is halved
Normal[m \in Big, e \in Int] ==
    IF BBitLen(m) > MantBits THEN [m |-> BShr(m, 1), e |-> e + 1]
    ELSE [m |-> m, e |-> e]

\* to nearest, ties to even: c compares the dropped part with one half
RoundUp[m \in Big, c \in Int, sticky \in BOOLEAN, e \in Int] ==
    Normal[IF c > 0 \/ (c = 0 /\ (sticky \/ BIsOdd(m))) THEN BAdd(m, BOne) ELSE m, e]

RoundDrop[q \in Big, sticky \in BOOLEAN, e \in Int, drop \in Nat] ==
    RoundUp[BShr(q, drop), BCmp(BLow(q, drop), BShl(BOne, drop - 1)), sticky,
            e + drop]

\* the binary64 nearest to (q + f) * 2^e, where 0 <= f < 1 and f # 0 iff
\* sticky; q has more than MantBits bits
RoundBits[q \in Big, sticky \in BOOLEAN, e \in Int] ==
    RoundDrop[q, sticky, e, BBitLen(q) - MantBits]

RoundQuotRem[qr \in QuotRem, e \in Int] == RoundBits[qr.q, qr.r # <<>>, e]
RoundShifted[n \in Big, d \in Big, e \in Int, s \in Int] ==
    RoundQuotRem[BDivMod[IF s >= 0 THEN BShl(n, s) ELSE n,
                         IF s >= 0 THEN d ELSE BShl(d, -s)],
                 e - s]

\* the binary64 nearest to (n / d) * 2^e, for n, d > 0
RoundRatio[n \in Big, d \in Big, e \in Int] ==
    RoundShifted[n, d, e, MantBits + 2 + BBitLen(d) - BBitLen(n)]

FMul[a \in Float, b \in Float] == RoundRatio[BMul(a.m, b.m), BOne, a.e + b.e]
FDiv[a \in Float, b \in Float] == RoundRatio[a.m, b.m, a.e - b.e]
\* x ** n and numpy.pow(x, n) for a small natural n: the correctly rounded
\* power (exact for every power the module takes of 1.0 and of a power of 2)
FPow[a \in Float, n \in Nat] == RoundRatio[BPow[a.m, n], BOne, n * a.e]

FromInt[n \in Nat] == RoundRatio[BFromInt(n), BOne, 0]

\* the float literal whose decimal digits are ds, times 10^x
FromDecimal[ds \in Seq(0..9), x \in Int] ==
    RoundRatio[IF x >= 0 THEN BMul(BFromDigits[ds], BPow[BFromInt(10), x])
               ELSE BFromDigits[ds],
               IF x >= 0 THEN BOne ELSE BPow[BFromInt(10), -x],
               0]

\* a <= b, a < b on binary64 values (both positive and normalised)
FLess(a, b) == a.e < b.e \/ (a.e = b.e /\ BCmp(a.m, b.m) < 0)
FLeq(a, b) == a = b \/ FLess(a, b)

\* Newton's step for the square root of n
Newton(n, x) == BShr(BAdd(x, BDivMod[n, x].q), 1)

\* floor(sqrt(n)) by Newton's iteration from x >= sqrt(n); y is the step
\* after x
ISqrtFrom[n \in Big, x \in Big, y \in Big] ==
    IF BCmp(y, x) >= 0 THEN x ELSE ISqrtFrom[n, y, Newton(n, y)]
ISqrt[n \in Big, x \in Big] == ISqrtFrom[n, x, Newton(n, x)]

SqrtShift(a) == MantBits + 3 + ((a.e + MantBits + 3) % 2)
FSqrtRound[n \in Big, r \in Big, e \in Int] == RoundBits[r, BMul(r, r) # n, e]
FSqrtScaled[n \in Big, e \in Int] ==
    FSqrtRound[n, ISqrt[n, BShl(BOne, (BBitLen(n) + 1) \div 2)], e]

\* numpy.sqrt(x): IEEE-754 square root, correctly rounded
FSqrt[a \in Float] ==
    FSqrtScaled[BShl(a.m, SqrtShift(a)), (a.e - SqrtShift(a)) \div 2]

\* the integer an integral binary64 below 2^31 stands for, else -1
ToInt(a) ==
    IF a.e > 0 \/ a.e < -(MantBits - 1) \/ a.e + MantBits > 31 THEN -1
    ELSE IF BLow(a.m, -a.e) # <<>> THEN -1
    ELSE LET q == BShr(a.m, -a.e)
         IN  Limb(q, 1) + Base * Limb(q, 2) + Base * Base * Limb(q, 3)

(***************************************************************************)
(* Python objects and expressions                                          *)
(***************************************************************************)
\* A value is a float [m, e], a class object, a module object or a
\* function object.  Python ints occur only as literals and as products of
\* literals below 2^53, where int and float arithmetic agree, so an int is
\* kept as the float of the same value.
ClassObject(name, attrs) == [class |-> name, attrs |-> attrs]
ModuleObject(name) == [module |-> name]
FunctionObject(name) == [function |-> name]

IsFloat(v) == "m" \in DOMAIN v
IsClass(v) == "class" \in DOMAIN v
IsModule(v) == "module" \in DOMAIN v

Empty == [n \in {} |-> 0]

\* expressions, as the source writes them
IntLit(n) == [op |-> "int", n |-> n]
FloatLit(ds, x) == [op |-> "float", ds |-> ds, x |-> x]
UnitLit(b) == [op |-> "unit", b |-> b]
Name(n) == [op |-> "name", n |-> n]
Attr(n, a) == [op |-> "attr", n |-> n, a |-> a]
Mul(l, r) == [op |-> "*", l |-> l, r |-> r]
Div(l, r) == [op |-> "/", l |-> l, r |-> r]
PowE(l, n) == [op |-> "**", l |-> l, n |-> n]
NpPow(l, n) == [op |-> "np.pow", l |-> l, n |-> n]
NpSqrt(l) == [op |-> "np.sqrt", l |-> l]

Ok(v) == [ok |-> TRUE, v |-> v]
Raise(x) == [ok |-> FALSE, exc |-> x]

\* numpy.pi, the binary64 nearest to pi (3.141592653589793 names it)
NumpyPi == FromDecimal[<<3, 1, 4, 1, 5, 9, 2, 6, 5, 3, 5, 8, 9, 7, 9, 3>>, -15]
NumpyFunctions == {"pow", "sqrt"}

\* a name in a class body: the class namespace first, then the module's
Lookup(n, loc, glob) ==
    IF n \in DOMAIN loc THEN Ok(loc[n])
    ELSE IF n \in DOMAIN glob THEN Ok(glob[n])
    ELSE Raise("NameError")

GetAttr(obj, a) ==
    IF IsClass(obj)
    THEN (IF a \in DOMAIN obj.attrs THEN Ok(obj.attrs[a]) ELSE Raise("AttributeError"))
    ELSE IF IsModule(obj) /\ obj.module = "numpy"
    THEN (IF a = "pi" THEN Ok(NumpyPi)
          ELSE IF a \in NumpyFunctions THEN Ok(FunctionObject(a))
          ELSE Raise("AttributeError"))
    ELSE Raise("AttributeError")

\* the outcome of evaluating an expression: its value, or the exception
Outcome == [ok : {TRUE}, v : Float] \cup [ok : {FALSE}, exc : STRING]

\* l * r and l / r; an exception in l comes before one in r
Binary[op \in {"*", "/"}, l \in Outcome, r \in Outcome] ==
    IF ~l.ok THEN l
    ELSE IF ~r.ok THEN r
    ELSE IF op = "*" THEN Ok(FMul[l.v, r.v])
    ELSE Ok(FDiv[l.v, r.v])

\* l ** n, numpy.pow(l, n), numpy.sqrt(l); fexc is the exception of the
\* lookup of the function, "none" when it was found
Unary[op \in {"**", "np.pow", "np.sqrt"}, fexc \in STRING, l \in Outcome, n \in Nat] ==
    IF fexc # "none" THEN Raise(fexc)
    ELSE IF ~l.ok THEN l
    ELSE IF op = "np.sqrt" THEN Ok(FSqrt[l.v])
    ELSE Ok(FPow[l.v, n])

ExcOf(o) == IF o.ok THEN "none" ELSE o.exc

\* _np.pow and _np.sqrt are looked up before their argument is evaluated
RECURSIVE Eval(_, _, _, _)
Eval(x, loc, glob, units) ==
    CASE x.op \in {"int", "unit"} ->
            Ok(FromInt[IF x.op = "int" THEN x.n ELSE units[x.b]])
      [] x.op = "float" -> Ok(FromDecimal[x.ds, x.x])
      [] x.op \in {"name", "attr"} ->
            IF x.op = "name" THEN Lookup(x.n, loc, glob)
            ELSE IF ~Lookup(x.n, loc, glob).ok THEN Lookup(x.n, loc, glob)
            ELSE GetAttr(Lookup(x.n, loc, glob).v, x.a)
      [] x.op \in {"*", "/"} ->
            Binary[x.op, Eval(x.l, loc, glob, units), Eval(x.r, loc, glob, units)]
      [] x.op \in {"**", "np.pow", "np.sqrt"} ->
            Unary[x.op,
                  IF x.op = "**" THEN "none"
                  ELSE ExcOf(Eval(Attr("_np", IF x.op = "np.pow" THEN "pow" ELSE "sqrt"),
                                  loc, glob, units)),
                  Eval(x.l, loc, glob, units),
                  IF x.op = "np.sqrt" THEN 0 ELSE x.n]

\* the values so far and the rest, or the first exception
Cons(h, t) ==
    IF ~h.ok THEN h
    ELSE IF t.ok THEN Ok(<<h.v>> \o t.v)
    ELSE t

\* the right-hand sides of an assignment, left to right
RECURSIVE EvalAll(_, _, _, _)
EvalAll(xs, loc, glob, units) ==
    IF xs = <<>> THEN Ok(<<>>)
    ELSE Cons(Eval(Head(xs), loc, glob, units), EvalAll(Tail(xs), loc, glob, units))

Range(seq) == {seq[i] : i \in DOMAIN seq}

\* bind targets[i] to values[i]
Bind(ns, targets, values) ==
    [n \in DOMAIN ns \cup Range(targets) |->
        IF n \in Range(targets)
        THEN values[CHOOSE i \in DOMAIN targets : targets[i] = n]
        ELSE ns[n]]

\* the names an expression reads
RECURSIVE Reads(_)
Reads(x) ==
    CASE x.op \in {"int", "float", "unit"} -> {}
      [] x.op = "name" -> {x.n}
      [] x.op = "attr" -> {x.n}
      [] x.op \in {"*", "/"} -> Reads(x.l) \cup Reads(x.r)
      [] x.op = "**" -> Reads(x.l)
      [] x.op \in {"np.pow", "np.sqrt"} -> {"_np"} \cup Reads(x.l)

\* statements
Import(line, module, alias) ==
    [kind |-> "import", line |-> line, module |-> module, alias |-> alias]
Class(line, name) == [kind |-> "class", line |-> line, name |-> name]
EndClass(line, name) == [kind |-> "endclass", line |-> line, name |-> name]
Assign(line, targets, values) ==
    [kind |-> "assign", line |-> line, targets |-> targets, values |-> values]
Def(line, name) == [kind |-> "def", line |-> line, name |-> name]

(***************************************************************************)
(* The module, statement by statement                                      *)
(***************************************************************************)
Import_np == Import(3, "numpy", "_np")

\* class BaseUnits: the literal each base unit is set to
BaseNames == {"meter", "kilogram", "second", "ampere", "kelvin", "mole", "candela"}
UnitLiterals_kelvin2 == [b \in BaseNames |-> IF b = "kelvin" THEN 2 ELSE 1]
UnitLiterals == [b \in BaseNames |-> 1]

BaseUnits_meter == Assign(16, <<"meter">>, <<UnitLit("meter")>>)
BaseUnits_kilogram == Assign(17, <<"kilogram">>, <<UnitLit("kilogram")>>)
BaseUnits_second == Assign(18, <<"second">>, <<UnitLit("second")>>)
BaseUnits_ampere == Assign(19, <<"ampere">>, <<UnitLit("ampere")>>)
BaseUnits_kelvin == Assign(20, <<"kelvin">>, <<UnitLit("kelvin")>>)
BaseUnits_mole == Assign(21, <<"mole">>, <<UnitLit("mole")>>)
BaseUnits_candela == Assign(22, <<"candela">>, <<UnitLit("candela")>>)

BaseUnitsBody ==
    << BaseUnits_meter, BaseUnits_kilogram, BaseUnits_second, BaseUnits_ampere,
       BaseUnits_kelvin, BaseUnits_mole, BaseUnits_candela >>

\* class Constants
Constants_u == Assign(27, <<"_u">>, <<Name("BaseUnits")>>)
Constants_volt ==
    Assign(29, <<"_volt">>,
        <<Div(Mul(Attr("_u", "kilogram"), PowE(Attr("_u", "meter"), 2)),
              Mul(Attr("_u", "ampere"), PowE(Attr("_u", "second"), 2)))>>)
Constants_coulomb ==
    Assign(30, <<"_coulomb">>, <<Mul(Attr("_u", "second"), Attr("_u", "ampere"))>>)
Constants_joule ==
    Assign(31, <<"_joule">>,
        <<Div(Mul(Attr("_u", "kilogram"), PowE(Attr("_u", "meter"), 2)),
              PowE(Attr("_u", "second"), 2))>>)
Constants_light_speed ==
    Assign(38, <<"light_speed">>,
        <<Mul(IntLit(299792458), Div(Attr("_u", "meter"), Attr("_u", "second")))>>)
\* 8.314462618
Constants_gas_constant ==
    Assign(39, <<"gas_constant">>,
        <<Mul(FloatLit(<<8, 3, 1, 4, 4, 6, 2, 6, 1, 8>>, -9),
              Div(Div(Name("_joule"), Attr("_u", "mole")), Attr("_u", "kelvin")))>>)
\* 1.380649e-23
Constants_boltzmann_constant ==
    Assign(40, <<"boltzmann_constant">>,
        <<Mul(FloatLit(<<1, 3, 8, 0, 6, 4, 9>>, -29),
              Div(Name("_joule"), Attr("_u", "kelvin")))>>)
\* 6.02214076e23
Constants_avogadro_constant ==
    Assign(41, <<"avogadro_constant">>,
        <<Mul(FloatLit(<<6, 0, 2, 2, 1, 4, 0, 7, 6>>, 15),
              Div(IntLit(1), Attr("_u", "mole")))>>)
\* 1.602176634e-19
Constants_elementary_charge ==
    Assign(42, <<"elementary_charge">>,
        <<Mul(FloatLit(<<1, 6, 0, 2, 1, 7, 6, 6, 3, 4>>, -28), Name("_coulomb"))>>)
\* 1.054571817e-34
Constants_reduced_planck_constant ==
    Assign(43, <<"reduced_planck_constant">>,
        <<Mul(FloatLit(<<1, 0, 5, 4, 5, 7, 1, 8, 1, 7>>, -43),
              Mul(Name("_joule"), Attr("_u", "second")))>>)
\* 9.1093837015e-31
Constants_electron_mass ==
    Assign(48, <<"electron_mass">>,
        <<Mul(FloatLit(<<9, 1, 0, 9, 3, 8, 3, 7, 0, 1, 5>>, -41),
              Attr("_u", "kilogram"))>>)
\* 1.25663706212e-6
Constants_vacuum_permeability ==
    Assign(51, <<"vacuum_permeability">>,
        <<Mul(FloatLit(<<1, 2, 5, 6, 6, 3, 7, 0, 6, 2, 1, 2>>, -17),
              Div(Div(Mul(Name("_volt"), Attr("_u", "second")),
                      Attr("_u", "ampere")),
                  Attr("_u", "meter")))>>)
Constants_electron_rest_energy ==
    Assign(57, <<"electron_rest_energy">>,
        <<Mul(Name("electron_mass"), NpPow(Name("light_speed"), 2))>>)
Constants_vacuum_permitticity ==
    Assign(60, <<"vacuum_permitticity">>,
        <<Div(FloatLit(<<1, 0>>, -1),
              Mul(Name("vacuum_permeability"), NpPow(Name("light_speed"), 2)))>>)
Constants_vacuum_impedance_literal ==
    Assign(63, <<"vacuum_impedance">>,
        <<FloatLit(<<3, 7, 6, 7, 3, 0, 3, 1, 3, 6, 6, 7>>, -9)>>)
Constants_vacuum_impedance ==
    Assign(63, <<"vacuum_impedance">>,
        <<Mul(Name("vacuum_permeability"), Name("light_speed"))>>)
Constants_electron_radius ==
    Assign(66, <<"electron_radius">>,
        <<Div(NpPow(Name("elementary_charge"), 2),
              Mul(Mul(Mul(IntLit(4), Attr("_np", "pi")),
                      Name("vacuum_permitticity")),
                  Name("electron_rest_energy")))>>)
Constants_joule_2_eV ==
    Assign(69, <<"_joule_2_eV">>,
        <<Div(Name("_joule"), Name("elementary_charge"))>>)
Constants_rad_cgamma ==
    Assign(72, <<"rad_cgamma">>,
        <<Div(Div(Mul(Mul(IntLit(4), Attr("_np", "pi")), Name("electron_radius")),
                  NpPow(Div(Div(Name("electron_rest_energy"),
                                Name("elementary_charge")),
                            FloatLit(<<1, 0>>, 8)), 3)),
              IntLit(3))>>)
Constants_Cq ==
    Assign(76, <<"Cq">>,
        <<Div(Mul(Mul(Div(FloatLit(<<5, 5, 0>>, -1),
                          Mul(IntLit(32), NpSqrt(FloatLit(<<3, 0>>, -1)))),
                      Name("reduced_planck_constant")),
                  Name("light_speed")),
              Name("electron_rest_energy"))>>)
Constants_Ca ==
    Assign(80, <<"Ca">>,
        <<Div(Mul(Name("electron_radius"), Name("light_speed")),
              Mul(IntLit(3),
                  NpPow(Div(Mul(Name("electron_rest_energy"), Name("_joule_2_eV")),
                            FloatLit(<<1, 0>>, 8)), 3)))>>)

ConstantsBody_derived_first ==
    << Constants_u, Constants_volt, Constants_coulomb, Constants_joule,
       Constants_electron_rest_energy,
       Constants_light_speed, Constants_gas_constant,
       Constants_boltzmann_constant, Constants_avogadro_constant,
       Constants_elementary_charge, Constants_reduced_planck_constant,
       Constants_electron_mass, Constants_vacuum_permeability,
       Constants_vacuum_permitticity,
       Constants_vacuum_impedance, Constants_electron_radius,
       Constants_joule_2_eV, Constants_rad_cgamma, Constants_Cq, Constants_Ca >>
ConstantsBody ==
    << Constants_u, Constants_volt, Constants_coulomb, Constants_joule,
       Constants_light_speed, Constants_gas_constant,
       Constants_boltzmann_constant, Constants_avogadro_constant,
       Constants_elementary_charge, Constants_reduced_planck_constant,
       Constants_electron_mass, Constants_vacuum_permeability,
       Constants_electron_rest_energy, Constants_vacuum_permitticity,
       Constants_vacuum_impedance, Constants_electron_radius,
       Constants_joule_2_eV, Constants_rad_cgamma, Constants_Cq, Constants_Ca >>

\* class DerivedUnits
DerivedUnits_u == Assign(86, <<"_u">>, <<Name("BaseUnits")>>)
DerivedUnits_c == Assign(87, <<"_c">>, <<Name("Constants")>>)
DerivedUnits_newton ==
    Assign(88, <<"newton">>,
        <<Div(Mul(Attr("_u", "kilogram"), Attr("_u", "meter")),
              Attr("_u", "second"))>>)
DerivedUnits_coulomb ==
    Assign(89, <<"coulomb">>, <<Mul(Attr("_u", "second"), Attr("_u", "ampere"))>>)
DerivedUnits_joule ==
    Assign(90, <<"joule">>, <<Mul(Name("newton"), Attr("_u", "meter"))>>)
DerivedUnits_watt ==
    Assign(91, <<"watt">>, <<Div(Name("joule"), Attr("_u", "second"))>>)
DerivedUnits_volt ==
    Assign(92, <<"volt">>, <<Div(Name("watt"), Attr("_u", "ampere"))>>)
DerivedUnits_weber ==
    Assign(93, <<"weber">>, <<Mul(Name("volt"), Attr("_u", "second"))>>)
DerivedUnits_tesla ==
    Assign(94, <<"tesla">>, <<Div(Name("weber"), PowE(Attr("_u", "meter"), 2))>>)
DerivedUnits_pascal ==
    Assign(95, <<"pascal">>,
        <<Div(Attr("_u", "kilogram"),
              Mul(Attr("_u", "meter"), PowE(Attr("_u", "second"), 2)))>>)
DerivedUnits_radian ==
    Assign(97, <<"radian">>, <<Div(Attr("_u", "meter"), Attr("_u", "meter"))>>)
DerivedUnits_mA_uA ==
    Assign(98, <<"mA", "uA">>, <<FloatLit(<<1>>, -3), FloatLit(<<1>>, -6)>>)
DerivedUnits_km_cm_mm_um_nm ==
    Assign(99, <<"km", "cm", "mm", "um", "nm">>,
        <<FloatLit(<<1>>, 3), FloatLit(<<1>>, -2), FloatLit(<<1>>, -3),
          FloatLit(<<1>>, -6), FloatLit(<<1>>, -9)>>)
DerivedUnits_rad_mrad_urad_nrad ==
    Assign(100, <<"rad", "mrad", "urad", "nrad">>,
        <<FloatLit(<<1>>, 0), FloatLit(<<1>>, -3), FloatLit(<<1>>, -6),
          FloatLit(<<1>>, -9)>>)
DerivedUnits_minute_hour_day_year_365 ==
    Assign(101, <<"minute", "hour", "day", "year">>,
        <<IntLit(60),
          Mul(IntLit(60), IntLit(60)),
          Mul(Mul(IntLit(24), IntLit(60)), IntLit(60)),
          Mul(Mul(Mul(IntLit(365), IntLit(24)), IntLit(60)), IntLit(60))>>)
DerivedUnits_minute_hour_day_year ==
    Assign(101, <<"minute", "hour", "day", "year">>,
        <<IntLit(60),
          Mul(IntLit(60), IntLit(60)),
          Mul(Mul(IntLit(24), IntLit(60)), IntLit(60)),
          Mul(Mul(Mul(FloatLit(<<3, 6, 5, 2, 5>>, -2), IntLit(24)), IntLit(60)),
              IntLit(60))>>)
DerivedUnits_electron_volt ==
    Assign(103, <<"electron_volt">>,
        <<Mul(Attr("_c", "elementary_charge"), Name("volt"))>>)
DerivedUnits_eV_MeV_GeV ==
    Assign(104, <<"eV", "MeV", "GeV">>,
        <<Name("electron_volt"),
          Mul(Name("electron_volt"), FloatLit(<<1>>, 6)),
          Mul(Name("electron_volt"), FloatLit(<<1>>, 9))>>)

DerivedUnitsBody ==
    << DerivedUnits_u, DerivedUnits_c, DerivedUnits_newton, DerivedUnits_coulomb,
       DerivedUnits_joule, DerivedUnits_watt, DerivedUnits_volt,
       DerivedUnits_weber, DerivedUnits_tesla, DerivedUnits_pascal,
       DerivedUnits_radian, DerivedUnits_mA_uA, DerivedUnits_km_cm_mm_um_nm,
       DerivedUnits_rad_mrad_urad_nrad, DerivedUnits_minute_hour_day_year,
       DerivedUnits_electron_volt, DerivedUnits_eV_MeV_GeV >>

\* class Conversions
Conversions_u == Assign(115, <<"_u">>, <<Name("BaseUnits")>>)
Conversions_du == Assign(116, <<"_du">>, <<Name("DerivedUnits")>>)
Conversions_radian_2_degree ==
    Assign(118, <<"radian_2_degree">>,
        <<Div(FloatLit(<<1, 8, 0, 0>>, -1), Attr("_np", "pi"))>>)
Conversions_degree_2_radian ==
    Assign(119, <<"degree_2_radian">>,
        <<Div(Attr("_np", "pi"), FloatLit(<<1, 8, 0, 0>>, -1))>>)
Conversions_rad_2_mrad ==
    Assign(121, <<"rad_2_mrad">>, <<Div(Attr("_du", "rad"), Attr("_du", "mrad"))>>)
Conversions_meter_2_mm ==
    Assign(122, <<"meter_2_mm">>, <<Div(Attr("_u", "meter"), Attr("_du", "mm"))>>)
Conversions_joule_2_eV ==
    Assign(123, <<"joule_2_eV">>,
        <<Div(Attr("_du", "joule"), Attr("_du", "electron_volt"))>>)
Conversions_pascal_2_bar ==
    Assign(124, <<"pascal_2_bar">>,
        <<Mul(Attr("_du", "pascal"), FloatLit(<<1, 0>>, -6))>>)
Conversions_eV_2_GeV ==
    Assign(125, <<"eV_2_GeV">>, <<Div(Attr("_du", "eV"), Attr("_du", "GeV"))>>)
Conversions_joule_2_GeV ==
    Assign(126, <<"joule_2_GeV">>, <<Mul(Name("joule_2_eV"), Name("eV_2_GeV"))>>)
Conversions_ev_2_joule ==
    Assign(127, <<"ev_2_joule">>, <<Div(FloatLit(<<1, 0>>, -1), Name("joule_2_eV"))>>)
Conversions_GeV_2_eV ==
    Assign(128, <<"GeV_2_eV">>, <<Div(FloatLit(<<1, 0>>, -1), Name("eV_2_GeV"))>>)
Conversions_mrad_2_rad ==
    Assign(129, <<"mrad_2_rad">>, <<Div(FloatLit(<<1, 0>>, -1), Name("rad_2_mrad"))>>)
Conversions_mm_2_meter_direct ==
    Assign(130, <<"mm_2_meter">>, <<Mul(FloatLit(<<1, 0>>, -1), Name("meter_2_mm"))>>)
Conversions_mm_2_meter ==
    Assign(130, <<"mm_2_meter">>, <<Div(FloatLit(<<1, 0>>, -1), Name("meter_2_mm"))>>)

ConversionsBody ==
    << Conversions_u, Conversions_du, Conversions_radian_2_degree,
       Conversions_degree_2_radian, Conversions_rad_2_mrad,
       Conversions_meter_2_mm, Conversions_joule_2_eV, Conversions_pascal_2_bar,
       Conversions_eV_2_GeV, Conversions_joule_2_GeV, Conversions_ev_2_joule,
       Conversions_GeV_2_eV, Conversions_mrad_2_rad, Conversions_mm_2_meter >>

\* def beam_rigidity(energy), lines 132-135.  The def stands at the
\* indentation of the body of Conversions, so it binds the name there; lines
\* 133-135 are read as its body, which runs at a call and reads the
\* module-level name _beam.
Def_beam_rigidity == Def(132, "beam_rigidity")
HelperReads == {"_beam"}

ClassNames == <<"BaseUnits", "Constants", "DerivedUnits", "Conversions">>

Module ==
    <<Import_np>>
    \o <<Class(11, "BaseUnits")>> \o BaseUnitsBody \o <<EndClass(22, "BaseUnits")>>
    \o <<Class(25, "Constants")>> \o ConstantsBody \o <<EndClass(81, "Constants")>>
    \o <<Class(84, "DerivedUnits")>> \o DerivedUnitsBody
    \o <<EndClass(104, "DerivedUnits")>>
    \o <<Class(107, "Conversions")>> \o ConversionsBody
    \o <<Def_beam_rigidity>> \o <<EndClass(135, "Conversions")>>

(***************************************************************************)
(* State                                                                   *)
(***************************************************************************)
VARIABLES
    units,      \* the literal of each base unit in the body of BaseUnits
    pc,         \* index in Module of the statement to execute next
    status,     \* "loading", "loaded", or "raised" when the load raised
    exc,        \* the exception the load raised, or "none"
    cur,        \* the class whose body is being executed, or "none"
    locals,     \* the namespace of that class body
    globals,    \* the namespace of the module
    last,       \* the latest operation of a client and its outcome
    extCalls    \* the energies the external rigidity routine was called with

vars == <<units, pc, status, exc, cur, locals, globals, last, extCalls>>

Threads == {"t1", "t2"}
\* energies a caller passes, in GeV; "nan" and "abc" are malformed
Energies == {"3.0", "nan", "abc"}
Malformed == {"nan", "abc"}
MaxCalls == 2
MaxScale == 2
ScaledUnits == {"meter", "kilogram", "second", "ampere"}

NoOp == [thread |-> "none", op |-> "none"]

Init ==
    /\ units = UnitLiterals
    /\ pc = 1
    /\ status = "loading"
    /\ exc = "none"
    /\ cur = "none"
    /\ locals = Empty
    /\ globals = Empty
    /\ last = NoOp
    /\ extCalls = <<>>

\* the same load with other scales for the base units
InitScaled ==
    /\ units \in [BaseNames -> 1..MaxScale]
    /\ \A b \in BaseNames \ ScaledUnits : units[b] = UnitLiterals[b]
    /\ pc = 1
    /\ status = "loading"
    /\ exc = "none"
    /\ cur = "none"
    /\ locals = Empty
    /\ globals = Empty
    /\ last = NoOp
    /\ extCalls = <<>>

(***************************************************************************)
(* Load                                                                    *)
(***************************************************************************)
Loading == status = "loading" /\ pc <= Len(Module)
Stmt == Module[pc]

\* the statement after the last one: the load is complete
Advance ==
    /\ pc' = pc + 1
    /\ status' = IF pc = Len(Module) THEN "loaded" ELSE "loading"
    /\ exc' = exc

ImportStmt ==
    /\ Loading
    /\ Stmt.kind = "import"
    /\ globals' = Bind(globals, <<Stmt.alias>>, <<ModuleObject(Stmt.module)>>)
    /\ Advance
    /\ UNCHANGED <<units, cur, locals, last, extCalls>>

ClassStmt ==
    /\ Loading
    /\ Stmt.kind = "class"
    /\ cur' = Stmt.name
    /\ locals' = Empty
    /\ Advance
    /\ UNCHANGED <<units, globals, last, extCalls>>

\* r is the outcome of the right-hand sides: bind the targets, or raise
Store(targets, r) ==
    IF r.ok
    THEN /\ locals' = Bind(locals, targets, r.v)
         /\ Advance
    ELSE /\ status' = "raised"
         /\ exc' = r.exc
         /\ UNCHANGED <<pc, locals>>

AssignStmt ==
    /\ Loading
    /\ Stmt.kind = "assign"
    /\ Store(Stmt.targets, EvalAll(Stmt.values, locals, globals, units))
    /\ UNCHANGED <<units, cur, globals, last, extCalls>>

\* the end of a class body: the class object is bound in the module
EndClassStmt ==
    /\ Loading
    /\ Stmt.kind = "endclass"
    /\ globals' = Bind(globals, <<cur>>, <<ClassObject(cur, locals)>>)
    /\ cur' = "none"
    /\ locals' = Empty
    /\ Advance
    /\ UNCHANGED <<units, last, extCalls>>

DefStmt ==
    /\ Loading
    /\ Stmt.kind = "def"
    /\ IF cur = "none"
       THEN /\ globals' = Bind(globals, <<Stmt.name>>, <<FunctionObject(Stmt.name)>>)
            /\ UNCHANGED locals
       ELSE /\ locals' = Bind(locals, <<Stmt.name>>, <<FunctionObject(Stmt.name)>>)
            /\ UNCHANGED globals
    /\ Advance
    /\ UNCHANGED <<units, cur, last, extCalls>>

(***************************************************************************)
(* Operations of a client after the load                                   *)
(***************************************************************************)
\* thread t reads Class.attr
Read(t, c, a) ==
    /\ status = "loaded"
    /\ last' = [thread |-> t, op |-> "read", class |-> c, attr |-> a,
                result |-> GetAttr(globals[c], a)]
    /\ UNCHANGED <<units, pc, status, exc, cur, locals, globals, extCalls>>

\* _beam.beam_rigidity, the external routine: what it returns is its own
\* business; it raises on a malformed energy
ExtValues == {"v1", "v2"}
ExtOutcomes(energy) ==
    IF energy \in Malformed THEN {Raise("ExternalError")}
    ELSE {Ok(r) : r \in [1..5 -> ExtValues]}

NotCalled == Raise("NotCalled")

beam_rigidity_caching(t, energy) ==
    /\ status = "loaded"
    /\ GetAttr(globals["Conversions"], "beam_rigidity").ok
    /\ LET b == Lookup("_beam", Empty, globals)
       IN  last' = [thread |-> t, op |-> "beam_rigidity",
                    energy |-> energy, passed |-> <<>>,
                    ext |-> NotCalled, result |-> b, origin |-> "mathphys"]
    /\ globals' = Bind(globals, <<"_energy">>, <<energy>>)
    /\ UNCHANGED <<units, pc, status, exc, cur, locals, extCalls>>

\* thread t calls beam_rigidity(energy), lines 133-135: look _beam up, call
\* its beam_rigidity with energy=energy, unpack the 5 results, return 3
beam_rigidity(t, energy) ==
    /\ status = "loaded"
    /\ GetAttr(globals["Conversions"], "beam_rigidity").ok
    /\ LET b == Lookup("_beam", Empty, globals)
       IN  IF ~b.ok
           THEN /\ last' = [thread |-> t, op |-> "beam_rigidity",
                            energy |-> energy, passed |-> <<>>,
                            ext |-> NotCalled, result |-> b,
                            origin |-> "mathphys"]
                /\ UNCHANGED extCalls
           ELSE /\ Len(extCalls) < MaxCalls
                /\ extCalls' = Append(extCalls, energy)
                /\ \E out \in ExtOutcomes(energy) :
                      last' = [thread |-> t, op |-> "beam_rigidity",
                               energy |-> energy, passed |-> <<energy>>,
                               ext |-> out,
                               result |-> IF out.ok
                                          THEN Ok(<<out.v[1], out.v[3], out.v[4]>>)
                                          ELSE out,
                               origin |-> IF out.ok THEN "none" ELSE "external"]
    /\ UNCHANGED <<units, pc, status, exc, cur, locals, globals>>

\* every name a class body binds
AttrNames ==
    UNION {Range(Module[i].targets) :
             i \in {j \in DOMAIN Module : Module[j].kind = "assign"}}

NextLoad ==
    \/ ImportStmt
    \/ ClassStmt
    \/ AssignStmt
    \/ EndClassStmt
    \/ DefStmt

Next ==
    \/ NextLoad
    \/ \E t \in Threads, c \in Range(ClassNames), a \in AttrNames : Read(t, c, a)
    \/ \E t \in Threads, energy \in Energies : beam_rigidity(t, energy)

Spec == Init /\ [][Next]_vars
SpecScaled == InitScaled /\ [][NextLoad]_vars

(***************************************************************************)
(* Properties                                                              *)
(***************************************************************************)
Loaded == status = "loaded"
One == FromInt[1]

\* the attributes of class c bound so far, during its body or after it
NS(c) ==
    IF c \in DOMAIN globals THEN globals[c].attrs
    ELSE IF cur = c THEN locals
    ELSE Empty

Defined(c, a) == a \in DOMAIN NS(c)
LastRead(c, a) == last.op = "read" /\ last.class = c /\ last.attr = a

\* C1: once the module is loaded, each of the seven base units is defined
\* and equals exactly 1.0.
C1_BaseUnitsAreOne ==
    Loaded => \A b \in BaseNames : Defined("BaseUnits", b) /\ NS("BaseUnits")[b] = One

C1_Witness == Loaded /\ LastRead("BaseUnits", "kelvin") /\ last.result = Ok(One)

D(a) == NS("DerivedUnits")[a]
K(a) == NS("Constants")[a]
V(a) == NS("Conversions")[a]
U(a) == NS("BaseUnits")[a]

\* C10: once the module is loaded, minute = 60, hour = 60 * minute = 3600,
\* day = 24 * hour = 86400, year = 365.25 * day = 31557600 (in units of
\* second = 1), and the speed of light is 299792458.
C10_TimeUnitsAndLightSpeed ==
    Loaded =>
        /\ \A a \in {"minute", "hour", "day", "year"} : Defined("DerivedUnits", a)
        /\ Defined("Constants", "light_speed")
        /\ ToInt(D("minute")) = 60
        /\ D("hour") = FMul[FromInt[60], D("minute")]
        /\ ToInt(D("hour")) = 3600
        /\ D("day") = FMul[FromInt[24], D("hour")]
        /\ ToInt(D("day")) = 86400
        /\ D("year") = FMul[FromDecimal[<<3, 6, 5, 2, 5>>, -2], D("day")]
        /\ ToInt(D("year")) = 31557600
        /\ ToInt(K("light_speed")) = 299792458

C10_Witness ==
    /\ Loaded
    /\ LastRead("DerivedUnits", "year")
    /\ last.result.ok
    /\ ToInt(last.result.v) = 31557600

\* the reciprocal pairs of class Conversions, forward factor first
Pairs ==
    { <<"radian_2_degree", "degree_2_radian">>,
      <<"rad_2_mrad", "mrad_2_rad">>,
      <<"meter_2_mm", "mm_2_meter">>,
      <<"joule_2_eV", "ev_2_joule">>,
      <<"eV_2_GeV", "GeV_2_eV">> }
ExactPairs == Pairs \ { <<"eV_2_GeV", "GeV_2_eV">> }
PairsDefined ==
    \A p \in Pairs : Defined("Conversions", p[1]) /\ Defined("Conversions", p[2])
Product(p) == FMul[V(p[1]), V(p[2])]

\* 1 - 1e-12 and 1 + 1e-12
TolLow == FromDecimal[<<9, 9, 9, 9, 9, 9, 9, 9, 9, 9, 9, 9>>, -12]
TolHigh == FromDecimal[<<1, 0, 0, 0, 0, 0, 0, 0, 0, 0, 0, 0, 1>>, -12]

\* C3 (as stated): once the module is loaded, both factors of every
\* reciprocal pair are defined and their product equals 1.
C3_ProductIsOne ==
    Loaded => PairsDefined /\ \A p \in Pairs : Product(p) = One

\* C3 (amended): once the module is loaded, both factors of every reciprocal
\* pair are defined; the product of a pair equals 1 exactly for
\* radian/degree, rad/mrad, meter/mm and joule/eV, and lies within 1e-12 of
\* 1 for eV/GeV.
C3_ProductIsOneWithinTolerance ==
    Loaded =>
        /\ PairsDefined
        /\ \A p \in ExactPairs : Product(p) = One
        /\ \A p \in Pairs : FLeq(TolLow, Product(p)) /\ FLeq(Product(p), TolHigh)

C3_Witness ==
    /\ Loaded
    /\ LastRead("Conversions", "GeV_2_eV")
    /\ last.result.ok
    /\ FMul[V("eV_2_GeV"), last.result.v] # One
    /\ FLess(FMul[V("eV_2_GeV"), last.result.v], One)

GroupIndex(c) == CHOOSE i \in DOMAIN ClassNames : ClassNames[i] = c

\* the classes a statement reads, directly or through an alias like _u
ClassesRead(stmt) ==
    { Lookup(n, locals, globals).v.class :
        n \in { m \in UNION {Reads(stmt.values[k]) : k \in DOMAIN stmt.values} :
                  /\ Lookup(m, locals, globals).ok
                  /\ IsClass(Lookup(m, locals, globals).v) } }

\* C7: the load follows one direction: a statement runs only when every name
\* it reads is bound and every value it needs exists; the four classes are
\* bound in the order BaseUnits, Constants, DerivedUnits, Conversions; and a
\* class body reads only classes that come before it.
C7_EvaluationOrder ==
    /\ \A i, j \in DOMAIN ClassNames :
          (i < j /\ (ClassNames[j] \in DOMAIN globals \/ cur = ClassNames[j]))
              => ClassNames[i] \in DOMAIN globals
    /\ (Loading /\ Stmt.kind = "assign") =>
          /\ \A k \in DOMAIN Stmt.values : \A n \in Reads(Stmt.values[k]) :
                Lookup(n, locals, globals).ok
          /\ EvalAll(Stmt.values, locals, globals, units).ok
          /\ \A c \in ClassesRead(Stmt) : GroupIndex(c) < GroupIndex(cur)

\* the load is about to run line 123, joule_2_eV = _du.joule / _du.electron_volt
C7_Witness ==
    /\ Loading
    /\ Stmt = Conversions_joule_2_eV
    /\ cur = "Conversions"
    /\ ClassesRead(Stmt) = {"DerivedUnits"}
    /\ {"BaseUnits", "Constants", "DerivedUnits"} \subseteq DOMAIN globals

Giga == FromDecimal[<<1, 0>>, 8]
FourPi == FMul[FromInt[4], NumpyPi]

C8_DerivedUnitsDimensionallyCorrect ==
    /\ Defined("DerivedUnits", "newton") =>
          D("newton") = FDiv[FMul[U("kilogram"), U("meter")], FPow[U("second"), 2]]
    /\ Defined("DerivedUnits", "coulomb") =>
          /\ D("coulomb") = FMul[U("second"), U("ampere")]
          /\ K("_coulomb") = D("coulomb")
    /\ Defined("DerivedUnits", "joule") =>
          /\ D("joule") = FMul[D("newton"), U("meter")]
          /\ K("_joule") = D("joule")
    /\ Defined("DerivedUnits", "watt") =>
          D("watt") = FDiv[D("joule"), U("second")]
    /\ Defined("DerivedUnits", "volt") =>
          /\ D("volt") = FDiv[D("watt"), U("ampere")]
          /\ K("_volt") = D("volt")
    /\ Defined("DerivedUnits", "weber") =>
          D("weber") = FMul[D("volt"), U("second")]
    /\ Defined("DerivedUnits", "tesla") =>
          D("tesla") = FDiv[D("weber"), FPow[U("meter"), 2]]
    /\ Defined("DerivedUnits", "pascal") =>
          D("pascal")
              = FDiv[U("kilogram"), FMul[U("meter"), FPow[U("second"), 2]]]

\* C2: a beam_rigidity call passes the external routine exactly the energy
\* it was given, once, and returns components 1, 3 and 4 of its result.
C2_ForwardsToExternalRoutine ==
    last.op = "beam_rigidity" =>
        /\ last.passed = <<last.energy>>
        /\ last.ext # NotCalled
        /\ last.ext.ok =>
              last.result = Ok(<<last.ext.v[1], last.ext.v[3], last.ext.v[4]>>)

\* the names each class body binds
Bodies ==
    [BaseUnits |-> BaseUnitsBody, Constants |-> ConstantsBody,
     DerivedUnits |-> DerivedUnitsBody, Conversions |-> ConversionsBody]
BodyNames(c) == UNION {Range(Bodies[c][i].targets) : i \in DOMAIN Bodies[c]}

\* C4: the load never raises; when it is complete every name of the four
\* classes and the helper beam_rigidity are defined, and every name the
\* helper reads, the external routine's module included, is bound.
C4_LoadCompletes ==
    /\ status # "raised"
    /\ Loaded =>
          /\ \A c \in Range(ClassNames) :
                c \in DOMAIN globals /\ BodyNames(c) \subseteq DOMAIN NS(c)
          /\ Defined("Conversions", "beam_rigidity")
          /\ HelperReads \subseteq DOMAIN globals

\* C6: a beam_rigidity call with a malformed energy returns nothing and
\* raises exactly the error the external routine raised.
C6_ExternalErrorPropagates ==
    (last.op = "beam_rigidity" /\ last.energy \in Malformed) =>
        /\ ~last.result.ok
        /\ last.origin = "external"
        /\ last.result = last.ext

====
